---- MODULE Spec2Model ----
(***************************************************************************)
(* Model of src/index.js: the date-derived AES-CBC obfuscation layer of    *)
(* the JIIT web-portal client (date sequence, key derivation, encrypt /    *)
(* decrypt, the LocalName header) and the session / login / data-request   *)
(* functions built on it.                                                  *)
(*                                                                         *)
(* JavaScript strings and byte arrays are sequences of character codes     *)
(* (0..255): "qa8y" is <<113, 97, 56, 121>>.  A Date is a record           *)
(* [day, tod]: the local day number counted from 1970-01-01 and an         *)
(* abstract time of day; the wall clock is the variable now.               *)
(***************************************************************************)
EXTENDS Integers, Sequences, FiniteSets, TLC

VARIABLES
  now,        \* the wall clock, what new Date() returns
  seqCall,    \* the last call of generate_date_seq: its argument, the date used, its result
  keys,       \* the key derivations made so far: clock at the call, key data
  ct,         \* the last encrypt call: plaintext, clock day, ciphertext
  dec,        \* the last decrypt call on ct: clock day, outcome
  ln,         \* the last generate_local_name call: inputs, clock reads, result
  loginPc,    \* StudentLogin: position of the call
  loginVars,  \* StudentLogin: the local variables of the call
  loginResult,\* StudentLogin: how the call ended
  made,       \* the last new WebPortalSession(resp): resp and how it ended
  held,       \* the session objects callers obtained
  session,    \* the caller's session (what StudentLogin returned)
  hdr,        \* the get_headers calls: their number, what the last returned, from what
  dataPc,     \* GetPersonalInfo / GetHostelInfo: position of the call
  dataVars,   \* GetPersonalInfo / GetHostelInfo: the local variables of the call
  dataResult, \* GetPersonalInfo / GetHostelInfo: how the call ended
  net         \* the requests in flight, in the order sent

vars == <<now, seqCall, keys, ct, dec, ln, loginPc, loginVars, loginResult,
          made, held, session, hdr, dataPc, dataVars, dataResult, net>>

\* null and undefined, as records so that they compare with objects
NULL == [null |-> TRUE]
Undefined == [undefined |-> TRUE]

(***************************************************************************)
(* Bounds of the model.                                                    *)
(***************************************************************************)
MaxTod == 1          \* times of day the clock distinguishes: 0..MaxTod
MaxDayAhead == 1     \* consecutive days after the start day the clock reaches
MaxSample == 24      \* explicit dates tried: 0..MaxSample strides from 1970
MaxKeyLog == 2       \* key derivations recorded
MaxSeed == 1         \* random streams tried: 0..MaxSeed
MaxData == 1         \* data requests (GetPersonalInfo, GetHostelInfo) sent

(***************************************************************************)
(* Strings.                                                                *)
(***************************************************************************)
\* String(n) for an integer n >= 0
RECURSIVE ToStr(_)
ToStr(n) == IF n < 10 THEN <<48 + n>> ELSE ToStr(n \div 10) \o <<48 + (n % 10)>>

\* s.padStart(n, c) for a one-character pad c
RECURSIVE PadStart(_, _, _)
PadStart(s, n, c) == IF Len(s) >= n THEN s ELSE PadStart(<<c>> \o s, n, c)

\* s.slice(k) for 0 <= k
Slice(s, k) == IF k >= Len(s) THEN <<>> ELSE SubSeq(s, k + 1, Len(s))

\* "undefined", what an out-of-range s[i] contributes to a concatenation
UndefinedStr == <<117, 110, 100, 101, 102, 105, 110, 101, 100>>

\* s[i] (0-based) as it enters a string concatenation
CharAt(s, i) == IF i < Len(s) THEN <<s[i + 1]>> ELSE UndefinedStr

(***************************************************************************)
(* Dates: the getters of a Date whose local day number is n.               *)
(***************************************************************************)
\* the civil date [year, month (1-12), day] of day number n >= -719468
CivilFromDays(n) ==
  LET z == n + 719468
      era == z \div 146097
      doe == z - era * 146097
      yoe == (doe - (doe \div 1460) + (doe \div 36524) - (doe \div 146096)) \div 365
      doy == doe - (365 * yoe + (yoe \div 4) - (yoe \div 100))
      mp == (5 * doy + 2) \div 153
      d == doy - ((153 * mp + 2) \div 5) + 1
      m == IF mp < 10 THEN mp + 3 ELSE mp - 9
  IN [year |-> yoe + era * 400 + (IF m <= 2 THEN 1 ELSE 0), month |-> m, day |-> d]

\* the day number of new Date(y, m - 1, d)
DaysFromCivil(y, m, d) ==
  LET yy == IF m <= 2 THEN y - 1 ELSE y
      era == yy \div 400
      yoe == yy - era * 400
      doy == ((153 * (IF m > 2 THEN m - 3 ELSE m + 9) + 2) \div 5) + d - 1
      doe == yoe * 365 + (yoe \div 4) - (yoe \div 100) + doy
  IN era * 146097 + doe - 719468

getDate(date) == CivilFromDays(date.day).day
getMonth(date) == CivilFromDays(date.day).month - 1
getFullYear(date) == CivilFromDays(date.day).year
\* 1970-01-01 was a Thursday; 0 is Sunday
getDay(date) == (date.day + 4) % 7

(***************************************************************************)
(* generate_date_seq, generate_key.  clock is what new Date() returns at   *)
(* the call.                                                               *)
(***************************************************************************)
\* a slip: the month left 0-based
generate_date_seq_month0(date, clock) ==
  LET dt == IF date = NULL THEN clock ELSE date
      day == PadStart(ToStr(getDate(dt)), 2, 48)
      month == PadStart(ToStr(getMonth(dt)), 2, 48)
      year == Slice(ToStr(getFullYear(dt)), 2)
      weekday == ToStr(getDay(dt))
  IN CharAt(day, 0) \o CharAt(month, 0) \o CharAt(year, 0) \o weekday
       \o CharAt(day, 1) \o CharAt(month, 1) \o CharAt(year, 1)

\* a slip: the time of day (getHours) where the weekday belongs
generate_date_seq_hours(date, clock) ==
  LET dt == IF date = NULL THEN clock ELSE date
      day == PadStart(ToStr(getDate(dt)), 2, 48)
      month == PadStart(ToStr(getMonth(dt) + 1), 2, 48)
      year == Slice(ToStr(getFullYear(dt)), 2)
      weekday == ToStr(dt.tod)
  IN CharAt(day, 0) \o CharAt(month, 0) \o CharAt(year, 0) \o weekday
       \o CharAt(day, 1) \o CharAt(month, 1) \o CharAt(year, 1)

generate_date_seq(date, clock) ==
  LET dt == IF date = NULL THEN clock ELSE date
      day == PadStart(ToStr(getDate(dt)), 2, 48)
      month == PadStart(ToStr(getMonth(dt) + 1), 2, 48)
      year == Slice(ToStr(getFullYear(dt)), 2)
      weekday == ToStr(getDay(dt))
  IN CharAt(day, 0) \o CharAt(month, 0) \o CharAt(year, 0) \o weekday
       \o CharAt(day, 1) \o CharAt(month, 1) \o CharAt(year, 1)

\* "qa8y" and "ty1pn"
KeyPrefix == <<113, 97, 56, 121>>
KeySuffix == <<116, 121, 49, 112, 110>>

\* the raw key data importKey is given
generate_key(date, clock) == KeyPrefix \o generate_date_seq(date, clock) \o KeySuffix

(***************************************************************************)
(* AES-128 (FIPS 197), the block cipher behind webcrypto.subtle.encrypt    *)
(* and decrypt with { name: "AES-CBC" } and a 16-byte key.  A block and a  *)
(* round key are 16 bytes in input order: byte i (from 1) is row           *)
(* (i - 1) % 4 of column (i - 1) \div 4 of the state.                      *)
(***************************************************************************)
SBox ==
  <<
      99, 124, 119, 123, 242, 107, 111, 197,  48,   1, 103,  43, 254, 215, 171, 118,
     202, 130, 201, 125, 250,  89,  71, 240, 173, 212, 162, 175, 156, 164, 114, 192,
     183, 253, 147,  38,  54,  63, 247, 204,  52, 165, 229, 241, 113, 216,  49,  21,
       4, 199,  35, 195,  24, 150,   5, 154,   7,  18, 128, 226, 235,  39, 178, 117,
       9, 131,  44,  26,  27, 110,  90, 160,  82,  59, 214, 179,  41, 227,  47, 132,
      83, 209,   0, 237,  32, 252, 177,  91, 106, 203, 190,  57,  74,  76,  88, 207,
     208, 239, 170, 251,  67,  77,  51, 133,  69, 249,   2, 127,  80,  60, 159, 168,
      81, 163,  64, 143, 146, 157,  56, 245, 188, 182, 218,  33,  16, 255, 243, 210,
     205,  12,  19, 236,  95, 151,  68,  23, 196, 167, 126,  61, 100,  93,  25, 115,
      96, 129,  79, 220,  34,  42, 144, 136,  70, 238, 184,  20, 222,  94,  11, 219,
     224,  50,  58,  10,  73,   6,  36,  92, 194, 211, 172,  98, 145, 149, 228, 121,
     231, 200,  55, 109, 141, 213,  78, 169, 108,  86, 244, 234, 101, 122, 174,   8,
     186, 120,  37,  46,  28, 166, 180, 198, 232, 221, 116,  31,  75, 189, 139, 138,
     112,  62, 181, 102,  72,   3, 246,  14,  97,  53,  87, 185, 134, 193,  29, 158,
     225, 248, 152,  17, 105, 217, 142, 148, 155,  30, 135, 233, 206,  85,  40, 223,
     140, 161, 137,  13, 191, 230,  66, 104,  65, 153,  45,  15, 176,  84, 187,  22
  >>


Bit(a, k) == (a \div (2 ^ k)) % 2
XorBits(a, b) ==
    ((Bit(a, 0) + Bit(b, 0)) % 2) + 2 * ((Bit(a, 1) + Bit(b, 1)) % 2)
  + 4 * ((Bit(a, 2) + Bit(b, 2)) % 2) + 8 * ((Bit(a, 3) + Bit(b, 3)) % 2)
  + 16 * ((Bit(a, 4) + Bit(b, 4)) % 2) + 32 * ((Bit(a, 5) + Bit(b, 5)) % 2)
  + 64 * ((Bit(a, 6) + Bit(b, 6)) % 2) + 128 * ((Bit(a, 7) + Bit(b, 7)) % 2)

\* f as a tuple of its n values, computed once
Tabulate(f, n) == Tail(<<0>> \o [i \in 1..n |-> f[i]])

\* a XOR b on bytes, tabulated: entry 256 * a + b + 1
XorTab == Tabulate([i \in 1..65536 |-> XorBits((i - 1) \div 256, (i - 1) % 256)], 65536)
Xor(a, b) == XorTab[256 * a + b + 1]
XorSeq(s, t) == Tabulate([i \in 1..Len(s) |-> Xor(s[i], t[i])], Len(s))

InvSBox == Tabulate([y \in 1..256 |-> CHOOSE x \in 0..255 : SBox[x + 1] = y - 1], 256)

\* multiplication in GF(2^8) modulo x^8 + x^4 + x^3 + x + 1, by c < 16
XTime(a) == IF a >= 128 THEN XorBits((2 * a) % 256, 27) ELSE 2 * a
GMul(a, c) ==
  LET a2 == XTime(a)
      a4 == XTime(a2)
      a8 == XTime(a4)
  IN XorBits(XorBits(IF Bit(c, 0) = 1 THEN a ELSE 0, IF Bit(c, 1) = 1 THEN a2 ELSE 0),
             XorBits(IF Bit(c, 2) = 1 THEN a4 ELSE 0, IF Bit(c, 3) = 1 THEN a8 ELSE 0))
Mul2 == Tabulate([i \in 1..256 |-> GMul(i - 1, 2)], 256)
Mul3 == Tabulate([i \in 1..256 |-> GMul(i - 1, 3)], 256)
Mul9 == Tabulate([i \in 1..256 |-> GMul(i - 1, 9)], 256)
Mul11 == Tabulate([i \in 1..256 |-> GMul(i - 1, 11)], 256)
Mul13 == Tabulate([i \in 1..256 |-> GMul(i - 1, 13)], 256)
Mul14 == Tabulate([i \in 1..256 |-> GMul(i - 1, 14)], 256)

SubBytes(s) == Tabulate([i \in 1..16 |-> SBox[s[i] + 1]], 16)
InvSubBytes(s) == Tabulate([i \in 1..16 |-> InvSBox[s[i] + 1]], 16)
ShiftRows(s) ==
  Tabulate([i \in 1..16 |->
    LET r == (i - 1) % 4
        c == (i - 1) \div 4
    IN s[4 * ((c + r) % 4) + r + 1]], 16)
InvShiftRows(s) ==
  Tabulate([i \in 1..16 |->
    LET r == (i - 1) % 4
        c == (i - 1) \div 4
    IN s[4 * ((c + 4 - r) % 4) + r + 1]], 16)
MixColumns(s) ==
  Tabulate([i \in 1..16 |->
    LET r == (i - 1) % 4
        b == 4 * ((i - 1) \div 4)
    IN Xor(Xor(Mul2[s[b + r + 1] + 1], Mul3[s[b + ((r + 1) % 4) + 1] + 1]),
           Xor(s[b + ((r + 2) % 4) + 1], s[b + ((r + 3) % 4) + 1]))], 16)
InvMixColumns(s) ==
  Tabulate([i \in 1..16 |->
    LET r == (i - 1) % 4
        b == 4 * ((i - 1) \div 4)
    IN Xor(Xor(Mul14[s[b + r + 1] + 1], Mul11[s[b + ((r + 1) % 4) + 1] + 1]),
           Xor(Mul13[s[b + ((r + 2) % 4) + 1] + 1], Mul9[s[b + ((r + 3) % 4) + 1] + 1]))], 16)

Rcon == <<1, 2, 4, 8, 16, 32, 64, 128, 27, 54>>
NextRoundKey(k, n) ==
  LET t == <<Xor(SBox[k[14] + 1], Rcon[n]), SBox[k[15] + 1], SBox[k[16] + 1], SBox[k[13] + 1]>>
      w0 == <<Xor(k[1], t[1]), Xor(k[2], t[2]), Xor(k[3], t[3]), Xor(k[4], t[4])>>
      w1 == <<Xor(k[5], w0[1]), Xor(k[6], w0[2]), Xor(k[7], w0[3]), Xor(k[8], w0[4])>>
      w2 == <<Xor(k[9], w1[1]), Xor(k[10], w1[2]), Xor(k[11], w1[3]), Xor(k[12], w1[4])>>
      w3 == <<Xor(k[13], w2[1]), Xor(k[14], w2[2]), Xor(k[15], w2[3]), Xor(k[16], w2[4])>>
  IN w0 \o w1 \o w2 \o w3

\* the round keys 0..10 of a 16-byte key, as a tuple: round n is entry n + 1
RECURSIVE ExpandKey(_, _)
ExpandKey(ks, n) ==
  IF n > 10 THEN ks ELSE ExpandKey(Append(ks, NextRoundKey(ks[n], n)), n + 1)
KeySchedule(key) == ExpandKey(<<key>>, 1)

\* rounds n..10 of the cipher on state s (Len(t) = 16 holds: it makes t a
\* value before the next round reads it)
RECURSIVE EncRounds(_, _, _)
EncRounds(s, ks, n) ==
  IF n = 10 THEN XorSeq(ShiftRows(SubBytes(s)), ks[11])
  ELSE LET t == XorSeq(MixColumns(ShiftRows(SubBytes(s))), ks[n + 1])
       IN IF Len(t) = 16 THEN EncRounds(t, ks, n + 1) ELSE <<>>
AesEncryptBlock(ks, b) == EncRounds(XorSeq(b, ks[1]), ks, 1)

\* rounds n..0 of the inverse cipher on state s
RECURSIVE DecRounds(_, _, _)
DecRounds(s, ks, n) ==
  IF n = 0 THEN XorSeq(InvSubBytes(InvShiftRows(s)), ks[1])
  ELSE LET t == InvMixColumns(XorSeq(InvSubBytes(InvShiftRows(s)), ks[n + 1]))
       IN IF Len(t) = 16 THEN DecRounds(t, ks, n - 1) ELSE <<>>
AesDecryptBlock(ks, b) == DecRounds(XorSeq(b, ks[11]), ks, 9)

(***************************************************************************)
(* AES-CBC with PKCS#7 padding, as subtle.encrypt / subtle.decrypt do it.  *)
(***************************************************************************)
\* data followed by n bytes of value n, n = 16 - Len(data) % 16
Pkcs7Pad(data) ==
  LET n == 16 - (Len(data) % 16)
  IN data \o [i \in 1..n |-> n]

\* the padded plaintext without its padding, or the failure subtle.decrypt
\* reports for a bad padding
Pkcs7Unpad(padded) ==
  LET n == padded[Len(padded)]
  IN IF n >= 1 /\ n <= 16 /\ \A i \in 1..n : padded[Len(padded) - i + 1] = n
     THEN [ok |-> TRUE, bytes |-> SubSeq(padded, 1, Len(padded) - n)]
     ELSE [ok |-> FALSE, error |-> "OperationError"]

RECURSIVE CbcEncryptBlocks(_, _, _)
CbcEncryptBlocks(ks, prev, padded) ==
  IF padded = <<>> THEN <<>>
  ELSE LET c == AesEncryptBlock(ks, XorSeq(SubSeq(padded, 1, 16), prev))
       IN c \o CbcEncryptBlocks(ks, c, SubSeq(padded, 17, Len(padded)))

RECURSIVE CbcDecryptBlocks(_, _, _)
CbcDecryptBlocks(ks, prev, data) ==
  IF data = <<>> THEN <<>>
  ELSE LET c == SubSeq(data, 1, 16)
       IN XorSeq(AesDecryptBlock(ks, c), prev)
            \o CbcDecryptBlocks(ks, c, SubSeq(data, 17, Len(data)))

AesCbcEncrypt(key, iv, data) == CbcEncryptBlocks(KeySchedule(key), iv, Pkcs7Pad(data))

AesCbcDecrypt(key, iv, data) ==
  IF Len(data) = 0 \/ Len(data) % 16 # 0
  THEN [ok |-> FALSE, error |-> "OperationError"]
  ELSE Pkcs7Unpad(CbcDecryptBlocks(KeySchedule(key), iv, data))

(***************************************************************************)
(* base64Encode, base64Decode, IV, encrypt, decrypt.                       *)
(***************************************************************************)
\* the i-th character (0..63) of the base64 alphabet
B64Char(i) ==
  IF i < 26 THEN 65 + i
  ELSE IF i < 52 THEN 97 + (i - 26)
  ELSE IF i < 62 THEN 48 + (i - 52)
  ELSE IF i = 62 THEN 43 ELSE 47

\* the value of base64 character c
B64Index(c) == CHOOSE i \in 0..63 : B64Char(i) = c

\* btoa of the binary string of data
RECURSIVE base64Encode(_)
base64Encode(data) ==
  IF Len(data) = 0 THEN <<>>
  ELSE IF Len(data) = 1
    THEN <<B64Char(data[1] \div 4), B64Char((data[1] % 4) * 16), 61, 61>>
  ELSE IF Len(data) = 2
    THEN <<B64Char(data[1] \div 4), B64Char((data[1] % 4) * 16 + (data[2] \div 16)),
           B64Char((data[2] % 16) * 4), 61>>
  ELSE <<B64Char(data[1] \div 4), B64Char((data[1] % 4) * 16 + (data[2] \div 16)),
         B64Char((data[2] % 16) * 4 + (data[3] \div 64)), B64Char(data[3] % 64)>>
         \o base64Encode(SubSeq(data, 4, Len(data)))

\* the bytes of atob(data), for data that is padded base64
RECURSIVE base64Decode(_)
base64Decode(data) ==
  IF Len(data) < 4 THEN <<>>
  ELSE LET a == B64Index(data[1])
           b == B64Index(data[2])
       IN IF data[3] = 61 THEN <<a * 4 + (b \div 16)>>
          ELSE LET c == B64Index(data[3])
               IN IF data[4] = 61 THEN <<a * 4 + (b \div 16), (b % 16) * 16 + (c \div 4)>>
                  ELSE <<a * 4 + (b \div 16), (b % 16) * 16 + (c \div 4),
                         (c % 4) * 64 + B64Index(data[4])>>
                         \o base64Decode(SubSeq(data, 5, Len(data)))

\* "dcek9wb8frty1pnm"
IV == <<100, 99, 101, 107, 57, 119, 98, 56, 102, 114, 116, 121, 49, 112, 110, 109>>

\* encrypt(data): the key is derived from the clock at the call
encrypt(data, clock) == AesCbcEncrypt(generate_key(NULL, clock), IV, data)

\* decrypt(data): the bytes, or the rejection of subtle.decrypt
decrypt(data, clock) == AesCbcDecrypt(generate_key(NULL, clock), IV, data)

(***************************************************************************)
(* get_random_char_seq, generate_local_name.  rnd is the sequence of       *)
(* indices Math.floor(Math.random() * charset.length) takes in the call.   *)
(***************************************************************************)
\* charset[i], i in 0..61: digits, lower case, upper case
Charset(i) == IF i < 10 THEN 48 + i ELSE IF i < 36 THEN 97 + (i - 10) ELSE 65 + (i - 36)

\* a slip: the loop runs once too often (i <= n)
get_random_char_seq_extra(n, rnd) == [i \in 1..(n + 1) |-> Charset(rnd[i])]

get_random_char_seq(n, rnd) == [i \in 1..n |-> Charset(rnd[i])]

\* the plaintext of the local name: rnd is the run of random indices the call
\* draws, the suffix takes them up where the prefix stopped; t1 is the clock
\* generate_date_seq reads
LocalNameBytes(date, rnd, t1) ==
  LET randomCharSeq == get_random_char_seq(4, rnd)
      dateSeq == generate_date_seq(date, t1)
      randomSuffix == get_random_char_seq(5, Slice(rnd, Len(randomCharSeq)))
  IN randomCharSeq \o dateSeq \o randomSuffix

\* t2 is the clock encrypt reads, after t1
generate_local_name(date, rnd, t1, t2) ==
  base64Encode(encrypt(LocalNameBytes(date, rnd, t1), t2))

\* the runs of random indices tried
RandomStream(seed) == [i \in 1..11 |-> (37 * seed + 11 * i + 5) % 62]
RandomStreams == {RandomStream(seed) : seed \in 0..MaxSeed}

(***************************************************************************)
(* JSON values, as the responses of the portal carry them.  A string is    *)
(* [str |-> s], an array [arr |-> <<...>>], an object [obj |-> record];    *)
(* a bearer token is [token |-> segments], its dot-separated segments,     *)
(* each segment [atob |-> whether atob accepts it, json |-> what           *)
(* JSON.parse makes of the decoded text, NotJson when it rejects it].      *)
(***************************************************************************)
JStr(s) == [str |-> s]
JArr(a) == [arr |-> a]
JObj(r) == [obj |-> r]
JNum(n) == [num |-> n]
NotJson == [notjson |-> TRUE]
NaN == [nan |-> TRUE]

Nullish(v) == v = Undefined \/ v = NULL

\* v[k] for a v that is neither null nor undefined
Get(v, k) ==
  IF "obj" \in DOMAIN v /\ k \in DOMAIN v.obj THEN v.obj[k] ELSE Undefined

\* v[i] for an array v
Index(v, i) ==
  IF "arr" \in DOMAIN v /\ i < Len(v.arr) THEN v.arr[i + 1] ELSE Undefined

(***************************************************************************)
(* class WebPortalSession.                                                 *)
(***************************************************************************)
SessionFields ==
  {"raw_response", "regdata", "institute", "instituteid", "memberid", "userid",
   "token", "expiry", "clientid", "membertype", "name", "enrollmentno"}

Throw(error, this) == [threw |-> TRUE, error |-> error, this |-> this]

\* JSON.parse(atob(token.split(".")[1]))["exp"]: the value, or the error thrown
ExpiryTimestamp(token) ==
  LET seg == IF Len(token.token) > 1 THEN token.token[2] ELSE Undefined
  IN IF seg = Undefined \/ ~seg.atob THEN [threw |-> TRUE, error |-> "InvalidCharacterError"]
     ELSE IF seg.json = NotJson THEN [threw |-> TRUE, error |-> "SyntaxError"]
     ELSE IF Nullish(seg.json) THEN [threw |-> TRUE, error |-> "TypeError"]
     ELSE [threw |-> FALSE, value |-> Get(seg.json, "exp")]

\* new Date(expiry_timestamp * 1000)
ExpiryDate(exp) == IF "num" \in DOMAIN exp THEN [ms |-> exp.num * 1000] ELSE NaN

\* the constructor: whether it threw, and the object as far as it was built
WebPortalSession(resp) ==
  LET this1 == [raw_response |-> resp]
  IN IF Nullish(resp) THEN Throw("TypeError", this1)
     ELSE
       LET regdata == Get(resp, "regdata")
           this2 == this1 @@ [regdata |-> regdata]
       IN IF Nullish(regdata) THEN Throw("TypeError", this2)
          ELSE IF Nullish(Get(regdata, "institutelist")) THEN Throw("TypeError", this2)
          ELSE
            LET institute == Index(Get(regdata, "institutelist"), 0)
            IN IF Nullish(institute) THEN Throw("TypeError", this2)
               ELSE
                 LET this3 == this2 @@ [institute |-> Get(institute, "label"),
                                        instituteid |-> Get(institute, "value"),
                                        memberid |-> Get(regdata, "memberid"),
                                        userid |-> Get(regdata, "userid"),
                                        token |-> Get(regdata, "token")]
                 IN IF Nullish(this3.token) THEN Throw("TypeError", this3)
                    ELSE
                      LET exp == ExpiryTimestamp(this3.token)
                      IN IF exp.threw THEN Throw(exp.error, this3)
                         ELSE [threw |-> FALSE,
                               this |-> this3 @@ [expiry |-> ExpiryDate(exp.value),
                                                  clientid |-> Get(regdata, "clientid"),
                                                  membertype |-> Get(regdata, "membertype"),
                                                  name |-> Get(regdata, "name"),
                                                  enrollmentno |-> Get(regdata, "enrollmentno")]]

\* `Bearer ${token}`
Bearer(token) == [prefix |-> "Bearer ", rest |-> token]

\* a slip: the local name is kept on the session and reused
get_headers_cached(this, rnd, t1, t2) ==
  IF "localname" \in DOMAIN this
  THEN [this |-> this,
        headers |-> [Authorization |-> Bearer(this.token), LocalName |-> this.localname]]
  ELSE [this |-> this @@ [localname |-> generate_local_name(NULL, rnd, t1, t2)],
        headers |-> [Authorization |-> Bearer(this.token),
                     LocalName |-> generate_local_name(NULL, rnd, t1, t2)]]

\* get_headers(): the headers returned and the session after the call
get_headers(this, rnd, t1, t2) ==
  [this |-> this,
   headers |-> [Authorization |-> Bearer(this.token),
                LocalName |-> generate_local_name(NULL, rnd, t1, t2)]]

(***************************************************************************)
(* The requests.                                                           *)
(***************************************************************************)
PretokenEndpoint == "/token/pretoken-check"
TokenEndpoint == "/token/generate-token1"
PersonalEndpoint == "/studentpersinfo/getstudent-personalinformation"
HostelEndpoint == "/myhostelallocationdetail/gethostelallocationdetail"

\* serialize_payload(payload): the base64 text of the ciphertext of the JSON
\* text of payload under the key of the clock, kept as what determines it
serialize_payload(payload, clock) ==
  [sealed |-> payload, key |-> generate_key(NULL, clock)]

\* a slip: the bearer header sent before there is a token
LoginHeaders_auth(localname) ==
  [ContentType |-> "application/json", Authorization |-> Bearer(Undefined),
   LocalName |-> localname]

\* the headers of the two requests of StudentLogin
LoginHeaders(localname) == [ContentType |-> "application/json", LocalName |-> localname]

\* the headers of a data request: Content-Type and the spread of get_headers()
DataHeaders(header) == [ContentType |-> "application/json"] @@ header

Request(endpoint, body, headers) ==
  [kind |-> "request", endpoint |-> endpoint, body |-> body, headers |-> headers]
\* an entry of the log of a call: a request sent, a response received
Event(kind, endpoint) == [kind |-> kind, endpoint |-> endpoint]

(***************************************************************************)
(* What the portal answers.                                                *)
(***************************************************************************)
Seg(a, j) == [atob |-> a, json |-> j]
Token(middle) == [token |-> <<Seg(TRUE, JObj([alg |-> JStr("HS512")])), middle, Seg(TRUE, NotJson)>>]

\* regdata with the given institute list and token
Regdata(list, token) ==
  JObj([institutelist |-> list, memberid |-> JStr("M1"), userid |-> JStr("U1"),
        token |-> token, clientid |-> JStr("JAYPEE"), membertype |-> JStr("S"),
        name |-> JStr("A"), enrollmentno |-> JStr("E1")])

Institutes == JArr(<<JObj([label |-> JStr("JIIT"), value |-> JStr("11IN")])>>)
GoodToken == Token(Seg(TRUE, JObj([exp |-> JNum(1700000)])))

\* what resp["response"] of generate-token1 can be: undefined, an error
\* object, regdata with an empty institute list, with no token, with a token
\* of one segment, with a middle segment that is no base64, no JSON, null,
\* an object without exp, and the well-formed answer
LoginResponses ==
  { Undefined,
    JObj([error |-> JStr("Invalid credentials")]),
    JObj([regdata |-> Regdata(JArr(<<>>), GoodToken)]),
    JObj([regdata |-> Regdata(Institutes, Undefined)]),
    JObj([regdata |-> Regdata(Institutes, [token |-> <<Seg(TRUE, NotJson)>>])]),
    JObj([regdata |-> Regdata(Institutes, Token(Seg(FALSE, NotJson)))]),
    JObj([regdata |-> Regdata(Institutes, Token(Seg(TRUE, NotJson)))]),
    JObj([regdata |-> Regdata(Institutes, Token(Seg(TRUE, NULL)))]),
    JObj([regdata |-> Regdata(Institutes, Token(Seg(TRUE, JObj([sub |-> JStr("U1")]))))]),
    JObj([regdata |-> Regdata(Institutes, GoodToken)]) }

\* how a fetch and the resp.json() after it can end: the request fails, the
\* body is no JSON, or it is the JSON value body
FetchOutcomes(bodies) ==
  {[kind |-> "netfail"], [kind |-> "nonjson"]} \cup {[kind |-> "json", body |-> b] : b \in bodies}

PretokenBodies ==
  { JObj([error |-> JStr("Invalid captcha")]),
    JObj([response |-> JObj([rejectedData |-> JStr("x"), username |-> JStr("u32")])]) }

TokenBodies ==
  {JObj([error |-> JStr("Server error")])}
    \cup {JObj([response |-> r]) : r \in LoginResponses \ {Undefined}}

DataBodies == {JObj([error |-> JStr("Unauthorized")]), JObj([response |-> JObj([ok |-> JStr("y")])])}

DEFCAPTCHA == JObj([captcha |-> JStr("phw5n"), hidden |-> JStr("gmBctEffdSg=")])

(***************************************************************************)
(* The clock.                                                              *)
(***************************************************************************)
StartDay == DaysFromCivil(2024, 3, 15)

\* the days the clock is observed on: the start day, the days after it, and
\* the same date one Gregorian cycle (400 years) later
ClockDays == {StartDay + k : k \in 0..MaxDayAhead}

\* explicit Date arguments: every 1009th day from 1970-01-01, at time 0
DateSamples == {[day |-> 1009 * k, tod |-> 0] : k \in 0..MaxSample}
                 \cup {[day |-> StartDay, tod |-> 0]}

\* explicit Date arguments of generate_local_name: the day before the start
\* day, and 1999-12-31
LocalNameDates == {[day |-> StartDay - 1, tod |-> 0],
                   [day |-> DaysFromCivil(1999, 12, 31), tod |-> 0]}

\* the data encrypt is given: '{"username":"u32","usertype":"S"}' (what
\* JSON.stringify gives serialize_payload), "0123456789abcdef", "hi", ""
Plaintexts ==
  { <<123, 34, 117, 115, 101, 114, 110, 97, 109, 101, 34, 58, 34, 117, 51, 50, 34,
      44, 34, 117, 115, 101, 114, 116, 121, 112, 101, 34, 58, 34, 83, 34, 125>>,
    <<48, 49, 50, 51, 52, 53, 54, 55, 56, 57, 97, 98, 99, 100, 101, 102>>,
    <<104, 105>>,
    <<>> }

Init ==
  /\ now = [day |-> StartDay, tod |-> 0]
  /\ seqCall = NULL
  /\ keys = {}
  /\ ct = NULL
  /\ dec = NULL
  /\ ln = [pc |-> "idle"]
  /\ loginPc = "idle"
  /\ loginVars = [log |-> <<>>]
  /\ loginResult = NULL
  /\ made = NULL
  /\ held = {}
  /\ session = NULL
  /\ hdr = [calls |-> 0]
  /\ dataPc = "idle"
  /\ dataVars = NULL
  /\ dataResult = NULL
  /\ net = <<>>

keyVars == <<seqCall, keys>>
cipherVars == <<ct, dec>>
loginAll == <<loginPc, loginVars, loginResult>>
dataAll == <<dataPc, dataVars, dataResult>>
portalVars == <<loginAll, made, held, session, hdr, dataAll, net>>

\* time passes within the day
Tick ==
  /\ now.tod < MaxTod
  /\ now' = [now EXCEPT !.tod = @ + 1]
  /\ UNCHANGED <<keyVars, cipherVars, ln, portalVars>>

\* midnight passes, once or many times
DayPasses ==
  /\ \E d \in ClockDays : d > now.day /\ now' = [day |-> d, tod |-> 0]
  /\ UNCHANGED <<keyVars, cipherVars, ln, portalVars>>

\* four hundred years pass: the same day of the month and of the week again
FourCenturiesPass ==
  /\ now.day \in ClockDays
  /\ now' = [day |-> now.day + 400 * 365 + 97, tod |-> 0]
  /\ UNCHANGED <<keyVars, cipherVars, ln, portalVars>>

\* a call generate_date_seq(date), date null or a Date
GenerateDateSeq ==
  /\ \E date \in DateSamples \cup {NULL} :
       seqCall' = [date |-> date, used |-> IF date = NULL THEN now ELSE date,
                   result |-> generate_date_seq(date, now)]
  /\ UNCHANGED <<now, keys, cipherVars, ln, portalVars>>

\* a call generate_key(), as encrypt and decrypt make it
GenerateKey ==
  /\ Cardinality(keys) < MaxKeyLog
  /\ keys' = keys \cup {[clock |-> now, key |-> generate_key(NULL, now)]}
  /\ UNCHANGED <<now, seqCall, cipherVars, ln, portalVars>>

\* a call encrypt(data)
Encrypt ==
  /\ \E data \in Plaintexts :
       ct' = [plain |-> data, day |-> now.day, data |-> encrypt(data, now)]
  /\ dec' = NULL
  /\ UNCHANGED <<now, keyVars, ln, portalVars>>

\* a call decrypt(data) on what encrypt returned
Decrypt ==
  /\ ct # NULL
  /\ dec' = [day |-> now.day, result |-> decrypt(ct.data, now)]
  /\ UNCHANGED <<now, keyVars, ct, ln, portalVars>>

\* generate_local_name(date) up to the call of encrypt: the first clock read
LocalNameStart ==
  /\ ln.pc \in {"idle", "done"}
  /\ \E date \in LocalNameDates \cup {NULL}, rnd \in RandomStreams :
       ln' = [pc |-> "named", date |-> date, rnd |-> rnd, t1 |-> now,
              bytes |-> LocalNameBytes(date, rnd, now)]
  /\ UNCHANGED <<now, keyVars, cipherVars, portalVars>>

\* encrypt(nameBytes) and base64Encode: the second clock read
LocalNameEncrypt ==
  /\ ln.pc = "named"
  /\ ln' = [pc |-> "done", date |-> ln.date, rnd |-> ln.rnd, t1 |-> ln.t1, t2 |-> now,
            bytes |-> ln.bytes, key |-> generate_key(NULL, now),
            value |-> base64Encode(encrypt(ln.bytes, now))]
  /\ UNCHANGED <<now, keyVars, cipherVars, portalVars>>

NextKey == Tick \/ DayPasses \/ GenerateDateSeq \/ GenerateKey
SpecKey == Init /\ [][NextKey]_vars

NextCipher == Tick \/ DayPasses \/ FourCenturiesPass \/ Encrypt \/ Decrypt
SpecCipher == Init /\ [][NextCipher]_vars

NextLocalName == Tick \/ DayPasses \/ LocalNameStart \/ LocalNameEncrypt
SpecLocalName == Init /\ [][NextLocalName]_vars

(***************************************************************************)
(* new WebPortalSession(resp), StudentLogin, get_headers, GetPersonalInfo, *)
(* GetHostelInfo.                                                          *)
(***************************************************************************)
cipherSide == <<seqCall, keys, ct, dec, ln>>

\* The client awaits each call before it makes the next, and obtains its
\* session before it asks for data.
\* a caller constructs a session itself, from a response it has kept, where
\* it does not log in
Construct ==
  /\ made = NULL
  /\ loginPc = "idle"
  /\ dataPc = "idle"
  /\ \E resp \in LoginResponses :
       LET r == WebPortalSession(resp)
       IN /\ made' = IF r.threw THEN [resp |-> resp, threw |-> TRUE, error |-> r.error]
                     ELSE [resp |-> resp, threw |-> FALSE]
          /\ held' = IF r.threw THEN held ELSE held \cup {r.this}
          /\ session' = IF r.threw THEN session ELSE r.this
  /\ UNCHANGED <<now, cipherSide, loginAll, hdr, dataAll, net>>

\* StudentLogin, lines 202-203: the first payload, sealed (outside the try)
LoginSerialize1 ==
  /\ loginPc = "idle"
  /\ dataPc = "idle"
  /\ made = NULL
  /\ hdr.calls = 0
  /\ loginVars' = [log |-> <<>>,
                   payload |-> serialize_payload(
                     JObj([username |-> JStr("u32"), usertype |-> JStr("S"),
                           captcha |-> DEFCAPTCHA]), now)]
  /\ loginPc' = "serialized1"
  /\ UNCHANGED <<now, cipherSide, loginResult, made, held, session, hdr, dataAll, net>>

\* line 207: generate_local_name() up to its call of encrypt
LoginLocalName1 ==
  /\ loginPc = "serialized1"
  /\ \E rnd \in RandomStreams :
       loginVars' = [log |-> loginVars.log, payload |-> loginVars.payload,
                     rnd |-> rnd, t1 |-> now]
  /\ loginPc' = "named1"
  /\ UNCHANGED <<now, cipherSide, loginResult, made, held, session, hdr, dataAll, net>>

\* lines 207-215: the local name encrypted, pretoken-check sent
LoginSendPretoken ==
  /\ loginPc = "named1"
  /\ net' = Append(net, Request(PretokenEndpoint, loginVars.payload,
              LoginHeaders(generate_local_name(NULL, loginVars.rnd, loginVars.t1, now))))
  /\ loginVars' = [log |-> Append(loginVars.log, Event("request", PretokenEndpoint))]
  /\ loginPc' = "awaitPre"
  /\ UNCHANGED <<now, cipherSide, loginResult, made, held, session, hdr, dataAll>>

\* the catch of StudentLogin: what the call returns on any failure
LoginFailure == [kind |-> "returned", value |-> NULL]

\* the requests in flight but the one to the endpoint, which has ended
Ended(endpoint) == SelectSeq(net, LAMBDA m : m.endpoint # endpoint)

\* lines 208-220: the fetch ends; resp.json(); resp["response"];
\* delete payload["rejectedData"]
LoginPretokenResponse ==
  /\ loginPc = "awaitPre"
  /\ net' = Ended(PretokenEndpoint)
  /\ \E o \in FetchOutcomes(PretokenBodies) :
       LET log == IF o.kind = "netfail" THEN loginVars.log
                  ELSE Append(loginVars.log, Event("response", PretokenEndpoint))
       IN IF o.kind = "json" /\ ~Nullish(Get(o.body, "response"))
          THEN /\ loginVars' = [log |-> log, payload |-> Get(o.body, "response")]
               /\ loginPc' = "gotPre"
               /\ UNCHANGED <<loginResult, session>>
          ELSE /\ loginVars' = [log |-> log]
               /\ loginPc' = "done"
               /\ loginResult' = LoginFailure
               /\ session' = NULL
  /\ UNCHANGED <<now, cipherSide, made, held, hdr, dataAll>>

\* lines 220-223: the second payload, sealed
LoginSerialize2 ==
  /\ loginPc = "gotPre"
  /\ loginVars' =
       [log |-> loginVars.log,
        payload |-> serialize_payload(
          JObj([k \in (DOMAIN loginVars.payload.obj \ {"rejectedData"})
                       \cup {"Modulename", "passwordotpvalue"} |->
                  IF k = "Modulename" THEN JStr("STUDENTMODULE")
                  ELSE IF k = "passwordotpvalue" THEN JStr("secret")
                  ELSE loginVars.payload.obj[k]]), now)]
  /\ loginPc' = "serialized2"
  /\ UNCHANGED <<now, cipherSide, loginResult, made, held, session, hdr, dataAll, net>>

\* line 225: generate_local_name() up to its call of encrypt
LoginLocalName2 ==
  /\ loginPc = "serialized2"
  /\ \E rnd \in RandomStreams :
       loginVars' = [log |-> loginVars.log, payload |-> loginVars.payload,
                     rnd |-> rnd, t1 |-> now]
  /\ loginPc' = "named2"
  /\ UNCHANGED <<now, cipherSide, loginResult, made, held, session, hdr, dataAll, net>>

\* lines 225-233: the local name encrypted, generate-token1 sent
LoginSendToken ==
  /\ loginPc = "named2"
  /\ net' = Append(net, Request(TokenEndpoint, loginVars.payload,
              LoginHeaders(generate_local_name(NULL, loginVars.rnd, loginVars.t1, now))))
  /\ loginVars' = [log |-> Append(loginVars.log, Event("request", TokenEndpoint))]
  /\ loginPc' = "awaitTok"
  /\ UNCHANGED <<now, cipherSide, loginResult, made, held, session, hdr, dataAll>>

\* lines 226-240: the fetch ends; resp.json(); the session constructed and
\* returned, or the catch
LoginTokenResponse ==
  /\ loginPc = "awaitTok"
  /\ net' = Ended(TokenEndpoint)
  /\ \E o \in FetchOutcomes(TokenBodies) :
       /\ loginVars' = [log |-> IF o.kind = "netfail" THEN loginVars.log
                                ELSE Append(loginVars.log, Event("response", TokenEndpoint))]
       /\ IF o.kind = "json"
          THEN LET r == WebPortalSession(Get(o.body, "response"))
               IN /\ made' = IF r.threw
                             THEN [resp |-> Get(o.body, "response"), threw |-> TRUE,
                                   error |-> r.error]
                             ELSE [resp |-> Get(o.body, "response"), threw |-> FALSE]
                  /\ loginResult' = IF r.threw THEN LoginFailure
                                    ELSE [kind |-> "returned", value |-> r.this]
                  /\ held' = IF r.threw THEN held ELSE held \cup {r.this}
                  /\ session' = IF r.threw THEN NULL ELSE r.this
          ELSE /\ loginResult' = LoginFailure
               /\ session' = NULL
               /\ UNCHANGED <<made, held>>
  /\ loginPc' = "done"
  /\ UNCHANGED <<now, cipherSide, hdr, dataAll>>

DataEndpoint(kind) == IF kind = "personal" THEN PersonalEndpoint ELSE HostelEndpoint

\* the payload of GetPersonalInfo and of GetHostelInfo
DataPayload(kind, this) ==
  IF kind = "personal"
  THEN JObj([clinetid |-> JStr("SOAU"), instituteid |-> this.instituteid])
  ELSE JObj([instituteid |-> this.instituteid])

\* GetPersonalInfo(session), GetHostelInfo(session) or a get_headers() of the
\* caller's own: the payload read off the session (outside the try), then
\* generate_local_name() up to its call of encrypt
DataStart ==
  /\ dataPc = "idle"
  /\ loginPc \in {"idle", "done"}
  /\ hdr.calls <= MaxData
  /\ \E kind \in {"personal", "hostel", "headers"} :
       IF session = NULL
       THEN /\ kind # "headers"
            /\ dataResult' = [kind |-> "threw", error |-> "TypeError"]
            /\ UNCHANGED <<dataPc, dataVars>>
       ELSE /\ \E rnd \in RandomStreams :
                 dataVars' = [kind |-> kind, this |-> session, rnd |-> rnd, t1 |-> now]
            /\ dataPc' = "named"
            /\ dataResult' = NULL
  /\ UNCHANGED <<now, cipherSide, loginAll, made, held, session, hdr, net>>

\* get_headers() returns; the data request is sent
DataSend ==
  /\ dataPc = "named"
  /\ \E h \in {get_headers(dataVars.this, dataVars.rnd, dataVars.t1, now)} :
        /\ hdr' = [calls |-> hdr.calls + 1,
                   differs |-> IF hdr.calls = 0 THEN FALSE
                               ELSE hdr.headers.LocalName # h.headers.LocalName,
                   before |-> dataVars.this, after |-> h.this,
                   rnd |-> dataVars.rnd, t1 |-> dataVars.t1, t2 |-> now,
                   headers |-> h.headers]
        /\ session' = h.this
        /\ IF dataVars.kind = "headers"
           THEN /\ dataPc' = "idle"
                /\ dataResult' = [kind |-> "returned", value |-> h.headers]
                /\ dataVars' = NULL
                /\ UNCHANGED net
           ELSE /\ dataPc' = "awaitData"
                /\ net' = Append(net, Request(DataEndpoint(dataVars.kind),
                            DataPayload(dataVars.kind, dataVars.this),
                            DataHeaders(h.headers)))
                /\ dataVars' = [kind |-> dataVars.kind]
                /\ UNCHANGED dataResult
  /\ UNCHANGED <<now, cipherSide, loginAll, made, held>>

\* the fetch ends; resp.json(); resp["response"] returned, or null
DataResponse ==
  /\ dataPc = "awaitData"
  /\ net' = Ended(DataEndpoint(dataVars.kind))
  /\ \E o \in FetchOutcomes(DataBodies) :
       dataResult' = IF o.kind = "json"
                     THEN [kind |-> "returned", value |-> Get(o.body, "response")]
                     ELSE [kind |-> "returned", value |-> NULL]
  /\ dataPc' = "idle"
  /\ dataVars' = NULL
  /\ UNCHANGED <<now, cipherSide, loginAll, made, held, session, hdr>>

NextPortal ==
  \/ DayPasses \/ Construct
  \/ LoginSerialize1 \/ LoginLocalName1 \/ LoginSendPretoken \/ LoginPretokenResponse
  \/ LoginSerialize2 \/ LoginLocalName2 \/ LoginSendToken \/ LoginTokenResponse
  \/ DataStart \/ DataSend \/ DataResponse
SpecPortal == Init /\ [][NextPortal]_vars

(***************************************************************************)
(* Claims about the cipher layer.                                          *)
(***************************************************************************)
\* C1: a decrypt of what encrypt returned, with both keys derived on the
\* same calendar day, returns exactly the plaintext encrypt was given.
RoundTripSameDay ==
  (dec # NULL /\ dec.day = ct.day) => dec.result = [ok |-> TRUE, bytes |-> ct.plain]

\* a same-day decrypt of a ciphertext of several blocks, at a later time of day
RoundTripSameDayCase ==
  dec # NULL /\ dec.day = ct.day /\ Len(ct.plain) > 16 /\ now.tod > 0

\* C2: when the calendar day changed between encrypt and decrypt, decrypt
\* ends in an error and returns no bytes.
CrossDayDecryptFails ==
  (dec # NULL /\ dec.day # ct.day) => ~dec.result.ok

\* C3: generate_date_seq(d) has 7 characters, D[0] M[0] Y[0] W D[1] M[1] Y[1]
\* of the zero-padded day DD, the zero-padded 1-based month MM, the last two
\* digits YY of the year and the weekday digit W; 2024-03-15, a weekday 5,
\* gives "1025534".
DateSeqFormat ==
  seqCall # NULL =>
    LET c == CivilFromDays(seqCall.used.day)
        w == (seqCall.used.day + 4) % 7
    IN /\ Len(seqCall.result) = 7
       /\ seqCall.result = << 48 + (c.day \div 10), 48 + (c.month \div 10),
                              48 + ((c.year % 100) \div 10), 48 + w,
                              48 + (c.day % 10), 48 + (c.month % 10),
                              48 + (c.year % 10) >>
       /\ c.month \in 1..12 /\ c.day \in 1..31 /\ w \in 0..6
       /\ (c = [year |-> 2024, month |-> 3, day |-> 15] =>
             w = 5 /\ seqCall.result = <<49, 48, 50, 53, 53, 51, 52>>)

\* generate_date_seq was called with the explicit date 2024-03-15
DateSeqExample ==
  /\ seqCall # NULL
  /\ seqCall.date # NULL
  /\ CivilFromDays(seqCall.used.day) = [year |-> 2024, month |-> 3, day |-> 15]

\* C4: two key derivations made on the same calendar day, at whatever time
\* of day and in whatever order, give the same key: the key differs only
\* between derivations of different days.
SameDaySameKey ==
  \A a \in keys, b \in keys : a.clock.day = b.clock.day => a.key = b.key

\* two derivations of one day at different times of day, and one of another day
SameDaySameKeyCase ==
  /\ \E a \in keys, b \in keys : a.clock.day = b.clock.day /\ a.clock.tod # b.clock.tod
  /\ now.day # StartDay

IsAlnum(c) == c \in (48..57) \cup (65..90) \cup (97..122)

\* C5: the value generate_local_name(d) returns decrypts to exactly 16
\* characters: 4 alphanumeric ones, generate_date_seq(d) at characters 5-11,
\* 5 alphanumeric ones.
LocalNamePlaintext ==
  ln.pc = "done" =>
    LET r == decrypt(base64Decode(ln.value), ln.t2)
    IN /\ r.ok
       /\ Len(r.bytes) = 16
       /\ SubSeq(r.bytes, 5, 11) = generate_date_seq(ln.date, ln.t1)
       /\ \A i \in (1..4) \cup (12..16) : IsAlnum(r.bytes[i])

\* generate_local_name returned for an explicit date that is not the day of
\* the clock, and for no date
LocalNamePlaintextCase ==
  /\ ln.pc = "done"
  /\ ln.date # NULL
  /\ ln.date.day # ln.t2.day

\* C10: called with no date, generate_local_name embeds in the token the
\* date digest of the same calendar day as the digest in the key that
\* encrypts the token.
LocalNameDigestMatchesKey ==
  (ln.pc = "done" /\ ln.date = NULL) => SubSeq(ln.bytes, 5, 11) = SubSeq(ln.key, 5, 11)

(***************************************************************************)
(* Claims about the session and the requests.                              *)
(***************************************************************************)
\* C6: every call of get_headers returns Authorization = "Bearer " followed
\* by the session's token and a LocalName generated during that call -- it is
\* the envelope of this call's random characters and clock readings, so no
\* value kept from an earlier call -- and leaves the session's fields as
\* they were.
HeadersFreshSessionUnchanged ==
  [][hdr'.calls > hdr.calls =>
       /\ DOMAIN hdr'.headers = {"Authorization", "LocalName"}
       /\ hdr'.headers.Authorization = Bearer(hdr'.before.token)
       /\ \E opened \in {decrypt(base64Decode(hdr'.headers.LocalName), hdr'.t2)} :
            opened.ok /\ opened.bytes = LocalNameBytes(NULL, hdr'.rnd, hdr'.t1)
       /\ hdr'.after = hdr'.before
       /\ session' = session]_vars

\* C6 happens: a second call on the same session has returned, with a
\* LocalName other than the first call's.
HeadersFreshCase ==
  /\ hdr.calls = 2
  /\ hdr.differs
  /\ hdr.before \in held
  /\ hdr.after = session

\* the login responses C7 names: regdata missing, institutelist empty, or a
\* token without a decodable middle segment
Malformed(resp) ==
  \/ Nullish(resp)
  \/ Nullish(Get(resp, "regdata"))
  \/ Nullish(Index(Get(Get(resp, "regdata"), "institutelist"), 0))
  \/ Nullish(Get(Get(resp, "regdata"), "token"))
  \/ ExpiryTimestamp(Get(Get(resp, "regdata"), "token")).threw

\* C7: constructing a session from a malformed login response fails with
\* MalformedSessionError, and no caller ever holds a session with only some
\* of its fields set.
MalformedFailsWithMalformedSessionError ==
  /\ (made # NULL /\ Malformed(made.resp)) =>
       (made.threw /\ made.error = "MalformedSessionError")
  /\ \A s \in held : DOMAIN s = SessionFields

\* C8: StudentLogin ends by returning a new WebPortalSession or by throwing
\* LoginError, never by returning a value that is no session.
LoginReturnsSessionOrThrowsLoginError ==
  loginPc = "done" =>
    \/ loginResult.kind = "returned" /\ loginResult.value \in held
    \/ loginResult.kind = "threw" /\ loginResult.error = "LoginError"

\* C9: the two requests of StudentLogin carry a LocalName header and no
\* Authorization header; every data request carries Authorization: Bearer
\* <token> of a session and LocalName; generate-token1 is sent only after the
\* response of pretoken-check has been received.
RequestHeaders ==
  /\ \A i \in DOMAIN net :
       LET m == net[i]
       IN /\ m.endpoint \in {PretokenEndpoint, TokenEndpoint} =>
               /\ "LocalName" \in DOMAIN m.headers
               /\ Len(m.headers.LocalName) > 0
               /\ "Authorization" \notin DOMAIN m.headers
          /\ m.endpoint \in {PersonalEndpoint, HostelEndpoint} =>
               /\ {"Authorization", "LocalName"} \subseteq DOMAIN m.headers
               /\ Len(m.headers.LocalName) > 0
               /\ \E s \in held : m.headers.Authorization = Bearer(s.token)
  /\ \A i \in DOMAIN loginVars.log :
       loginVars.log[i] = Event("request", TokenEndpoint) =>
         \E j \in 1..(i - 1) : loginVars.log[j] = Event("response", PretokenEndpoint)

\* C9 happens: after a login of both requests, a data request is in flight.
RequestHeadersCase ==
  /\ Len(loginVars.log) = 4
  /\ loginVars.log[3] = Event("request", TokenEndpoint)
  /\ \E i \in DOMAIN net : net[i].endpoint \in {PersonalEndpoint, HostelEndpoint}

====
